---- MODULE Spec2Model ----
(***************************************************************************)
(* Model of massa-executed-ops/src/executed_ops.rs (ExecutedOps) and of    *)
(* massa-protocol-worker/src/handlers/peer_handler/mod.rs (the peer        *)
(* management reactor and the MassaHandshake driver).                      *)
(***************************************************************************)
EXTENDS Integers, Sequences, FiniteSets, TLC

(***************************************************************************)
(* Bounds of the model.                                                    *)
(***************************************************************************)
MaxId == 2
MaxPeriod == 1
PartSize == 2
NumSessions == 2
MaxTimestamp == 2
MaxNonce == 2
MaxSent == 2
MaxList == 2
MaxPiggy == 1
TesterCap == 1
MaxChan == 2
MaxCmdChan == 2
MaxChunk == 2
max_executed_ops_length == 1
max_operations_per_block == 1

(* ExecutedOpsConfig { thread_count: 2, .. } as built by the test.         *)
ThreadCount == 2

VARIABLES
    eo,         \* the ExecutedOps instance under study (a in the test)
    eo2,        \* a second ExecutedOps instance (c in the test, the bootstrap client)
    phase,      \* position of the driver of the ExecutedOps instances
    cursor,     \* StreamingStep<Slot> handed to the next get_executed_ops_part
    inflight,   \* the chunk travelling from the bootstrap server to the client
    chA, chB,   \* the change sets of the XOR test
    curSlot,    \* the slot argument of the XOR test
    peer_db,    \* per node, the SharedPeerDB: peers and index_by_newest
    hs,         \* per handshake thread, its position in perform_handshake and its locals
    nonces,     \* how many random challenges the nodes have drawn so far
    sigs,       \* the challenge signatures the nodes have put on the wire
    cmd_chan,   \* per node, the command channel of the reactor
    msg_chan,   \* per node, the inbound-message channel of the reactor
    tester_chan, \* per node, the bounded channel to the testers
    reactor,    \* per node, whether the reactor loop is running
    sent,       \* how many commands and messages the environment has sent
    wire        \* per handshake thread, the frames buffered for its endpoint to receive

opsVars == <<eo, eo2, phase, cursor, inflight, chA, chB, curSlot>>
peerVars == <<peer_db, hs, nonces, sigs, cmd_chan, msg_chan, tester_chan, reactor, sent, wire>>
vars == <<eo, eo2, phase, cursor, inflight, chA, chB, curSlot,
          peer_db, hs, nonces, sigs, cmd_chan, msg_chan, tester_chan, reactor, sent, wire>>

(***************************************************************************)
(* Peers, announcements, the peer DB                                       *)
(***************************************************************************)
(* The nodes running this program, and the key of a party that is not one  *)
(* of them.                                                                *)
Nodes == {"n1", "n2"}
Outsider == "m"
PeerIds == Nodes \cup {Outsider}

Sessions == 1..NumSessions
Timestamps == 1..MaxTimestamp

(* listeners of a node's own announcement (one listener each).             *)
OwnListeners == {"l"}

(* PeerState                                                               *)
Trusted == "Trusted"
InHandshake == "InHandshake"
HandshakeFailed == "HandshakeFailed"
Banned == "Banned"

(* An Announcement: signer stands for the key its signature was made with. *)
Announcement(signer, listeners, timestamp) ==
    [ok |-> TRUE, signer |-> signer, listeners |-> listeners, timestamp |-> timestamp]
(* Bytes the AnnouncementDeserializer rejects.                             *)
BadAnnouncement == [ok |-> FALSE, signer |-> Outsider, listeners |-> {}, timestamp |-> 1]

(* Hash::compute_from(random bytes)                                        *)
compute_from(bytes) == <<"hash", bytes>>
(* keypair.sign(hash)                                                      *)
sign(key, hash) == [signer |-> key, hash |-> hash]
(* peer_id.verify_signature(hash, signature)                               *)
verify_signature(peer, hash, signature) ==
    signature.signer = peer /\ signature.hash = hash

(* PeerDB::default()                                                       *)
EmptyPeers == [p \in {} |-> 0]
EmptyDb == [peers |-> EmptyPeers, index_by_newest |-> {}]

(* peers.entry(id).and_modify(|info| info.state = state)                   *)
SetState(db, id, state) ==
    IF id \in DOMAIN db.peers
    THEN [db EXCEPT !.peers[id].state = state]
    ELSE db

(* PeerDB::ban_peer: sets Banned on an existing record.                    *)
ban_peer(db, id) == SetState(db, id, Banned)

(* PeerDB::unban_peer: clears Banned on an existing record.                *)
unban_peer(db, id, state) ==
    IF id \in DOMAIN db.peers /\ db.peers[id].state = Banned
    THEN SetState(db, id, state)
    ELSE db

(* PeerDB::get_rand_peers_to_send: the Trusted peers that announced a      *)
(* listener.                                                               *)
get_rand_peers_to_send(db) ==
    {id \in DOMAIN db.peers :
        db.peers[id].state = Trusted /\ db.peers[id].last_announce.listeners # {}}

(* What the peers put in their frames.                                     *)
PeerEntries == {<<p, OwnListeners>> : p \in PeerIds}

RECURSIVE SeqsUpTo(_, _)
SeqsUpTo(S, n) ==
    IF n = 0 THEN {<<>>}
    ELSE LET shorter == SeqsUpTo(S, n - 1)
         IN shorter \cup {Append(q, e) : q \in shorter, e \in S}

(* The bytes of a peer management message as the reactor's deserializer    *)
(* sees them: well formed, undecodable, or followed by trailing bytes.     *)
(* id 7 is NewPeerConnected (one entry), id 6 is ListPeers.                *)
MessageBodies ==
    {[id |-> 7, form |-> "ok", entries |-> <<e>>] : e \in PeerEntries}
    \cup {[id |-> 6, form |-> "ok", entries |-> l] : l \in SeqsUpTo(PeerEntries, MaxList)}
    \cup {[id |-> 6, form |-> f, entries |-> <<>>] : f \in {"bad", "trailing"}}

(* What follows tag 1 in the frame of fallback_function: a ListPeers.      *)
PiggyBodies == {[id |-> 6, form |-> "ok", entries |-> l] : l \in SeqsUpTo(PeerEntries, MaxPiggy)}

NoBody == [id |-> 6, form |-> "bad", entries |-> <<>>]

(* The announcements a party without the nodes' keys can put in a frame:   *)
(* any announcement under its own key, and the announcements the nodes     *)
(* send in the first frame of every handshake.                             *)
KnownAnnouncements ==
    {Announcement(Outsider, l, t) : l \in {{}, OwnListeners}, t \in Timestamps}
    \cup {Announcement(n, OwnListeners, t) : n \in Nodes, t \in Timestamps}

(* The first frame received: peer id, version, tag byte, and what follows  *)
(* the tag.  piggy_ok tells whether deserialize_id and handle accept the   *)
(* message that follows tag 1.                                             *)
Frame(peer, version, tag, ann, piggy_ok, body) ==
    [peer_id |-> peer, version |-> version, tag |-> tag, ann |-> ann,
     piggy_ok |-> piggy_ok, body |-> body]

FirstFrames ==
    {Frame(p, v, "none", BadAnnouncement, FALSE, NoBody) :
        p \in PeerIds, v \in {"undecodable", "incompatible", "ok"}}
    \cup {Frame(p, "ok", "2", BadAnnouncement, FALSE, NoBody) : p \in PeerIds}
    \cup {Frame(p, "ok", "0", a, FALSE, NoBody) :
            p \in PeerIds, a \in KnownAnnouncements \cup {BadAnnouncement}}
    \cup {Frame(p, "ok", "1", BadAnnouncement, FALSE, NoBody) : p \in PeerIds}
    \cup {Frame(p, "ok", "1", BadAnnouncement, TRUE, b) : p \in PeerIds, b \in PiggyBodies}

NoSignature == [signer |-> Outsider, hash |-> compute_from(0)]

(* The locals of a perform_handshake call that has not started.            *)
IdleSession ==
    [pc |-> "idle", owner |-> "n1", has_peer |-> FALSE, peer_id |-> Outsider,
     ann |-> BadAnnouncement,
     self_random |-> 0, other_random |-> -1, sent_signature |-> FALSE,
     other_signature |-> NoSignature,
     res |-> "none", sent_peers |-> FALSE, ret |-> "none"]

(* announcement verification: the announcement is signed by the peer.      *)
verify_announcement(peer, ann) == ann.signer = peer

InitPeerVars ==
    /\ peer_db = [n \in Nodes |-> EmptyDb]
    /\ hs = [s \in Sessions |-> IdleSession]
    /\ nonces = 0
    /\ sigs = {}
    /\ cmd_chan = [n \in Nodes |-> <<>>]
    /\ msg_chan = [n \in Nodes |-> <<>>]
    /\ tester_chan = [n \in Nodes |-> <<>>]
    /\ reactor = [n \in Nodes |-> [running |-> TRUE, log |-> "none"]]
    /\ sent = 0
    /\ wire = [s \in Sessions |-> <<>>]

(***************************************************************************)
(* Slot, OperationId, Hash                                                 *)
(***************************************************************************)
OperationIds == 1..MaxId
Slots == (0..MaxPeriod) \X (0..(ThreadCount - 1))

(* Slot ordering: period first, then thread.                               *)
SlotLess(a, b) == a[1] < b[1] \/ (a[1] = b[1] /\ a[2] < b[2])
SlotLeq(a, b) == a = b \/ SlotLess(a, b)

(* A Hash is the set of the positions of its 1 bits; Hash ^ Hash flips the  *)
(* bits set in exactly one operand.                                        *)
XorHash(h1, h2) == (h1 \ h2) \cup (h2 \ h1)

(* EXECUTED_OPS_INITIAL_BYTES: all-zero.                                   *)
EXECUTED_OPS_INITIAL_BYTES == {}

(* op_id.get_hash(): a fixed non-zero digest per id, no digest being the   *)
(* XOR of other digests.                                                   *)
get_hash(id) == {0, id}

(***************************************************************************)
(* ExecutedOps                                                             *)
(***************************************************************************)
EmptyMap == [k \in {} |-> {}]

new == [sorted_ops |-> EmptyMap, ops |-> {}, hash |-> EXECUTED_OPS_INITIAL_BYTES]

contains(self, op_id) == op_id \in self.ops

(* extend_and_compute_hash: for each value, XOR its hash in only when the  *)
(* insertion into ops reports the id as new.                               *)
RECURSIVE extend_and_compute_hash_unguarded(_, _)
extend_and_compute_hash_unguarded(self, values) ==
    IF values = {} THEN self
    ELSE LET op_id == CHOOSE v \in values : TRUE
             next == [self EXCEPT !.ops = @ \cup {op_id},
                                  !.hash = XorHash(@, get_hash(op_id))]
         IN extend_and_compute_hash_unguarded(next, values \ {op_id})

RECURSIVE extend_and_compute_hash(_, _)
extend_and_compute_hash(self, values) ==
    IF values = {} THEN self
    ELSE LET op_id == CHOOSE v \in values : TRUE
             next == IF op_id \notin self.ops
                     THEN [self EXCEPT !.ops = @ \cup {op_id},
                                       !.hash = XorHash(@, get_hash(op_id))]
                     ELSE self
         IN extend_and_compute_hash(next, values \ {op_id})

(* The (slot, id) pairs of a map Slot -> set of ids.                       *)
Pairs(m) == UNION {{<<k, id>> : id \in m[k]} : k \in DOMAIN m}

(* The removal loop of prune: every removed (slot, id) pair removes the id *)
(* from ops and XORs its hash into the accumulator.                        *)
RECURSIVE RemoveLoop(_, _)
RemoveLoop(self, pairs) ==
    IF pairs = {} THEN self
    ELSE LET p == CHOOSE q \in pairs : \A r \in pairs : q = r \/ SlotLess(q[1], r[1])
                                           \/ (q[1] = r[1] /\ q[2] < r[2])
             next == [self EXCEPT !.ops = @ \ {p[2]},
                                  !.hash = XorHash(@, get_hash(p[2]))]
         IN RemoveLoop(next, pairs \ {p})

Restrict(m, keys) == [k \in keys |-> m[k]]

(* prune with kept and removed swapped: drops the tail, keeps the head.    *)
prune_swapped(self, slot) ==
    LET removedKeys == {k \in DOMAIN self.sorted_ops : ~SlotLess(k, slot)}
        keptKeys == {k \in DOMAIN self.sorted_ops : SlotLess(k, slot)}
        removed == Restrict(self.sorted_ops, removedKeys)
        after == RemoveLoop(self, Pairs(removed))
    IN [after EXCEPT !.sorted_ops = Restrict(self.sorted_ops, keptKeys)]

(* prune that also removes the entry keyed at slot.                        *)
prune_inclusive(self, slot) ==
    LET keptKeys == {k \in DOMAIN self.sorted_ops : SlotLess(slot, k)}
        removedKeys == {k \in DOMAIN self.sorted_ops : SlotLeq(k, slot)}
        removed == Restrict(self.sorted_ops, removedKeys)
        after == RemoveLoop(self, Pairs(removed))
    IN [after EXCEPT !.sorted_ops = Restrict(self.sorted_ops, keptKeys)]

(* prune: split_off(&slot) keeps the keys >= slot, the rest is removed.    *)
prune(self, slot) ==
    LET keptKeys == {k \in DOMAIN self.sorted_ops : ~SlotLess(k, slot)}
        removedKeys == {k \in DOMAIN self.sorted_ops : SlotLess(k, slot)}
        removed == Restrict(self.sorted_ops, removedKeys)
        after == RemoveLoop(self, Pairs(removed))
    IN [after EXCEPT !.sorted_ops = Restrict(self.sorted_ops, keptKeys)]

(* apply_changes: changes is a map OperationId -> Slot.                    *)
apply_changes(self, changes, slot) ==
    LET s1 == extend_and_compute_hash(self, DOMAIN changes)
        newKeys == {changes[id] : id \in DOMAIN changes}
        merged == [k \in (DOMAIN self.sorted_ops) \cup newKeys |->
                     (IF k \in DOMAIN self.sorted_ops THEN self.sorted_ops[k] ELSE {})
                     \cup {id \in DOMAIN changes : changes[id] = k}]
    IN prune([s1 EXCEPT !.sorted_ops = merged], slot)

(* The keys of sorted_ops in iteration (ascending slot) order.             *)
RECURSIVE SortedKeys(_)
SortedKeys(keys) ==
    IF keys = {} THEN <<>>
    ELSE LET k == CHOOSE x \in keys : \A y \in keys : SlotLeq(x, y)
         IN <<k>> \o SortedKeys(keys \ {k})

Started == [tag |-> "Started"]
Ongoing(slot) == [tag |-> "Ongoing", slot |-> slot]
Finished == [tag |-> "Finished"]

(* Take the first n elements of a sequence.                                *)
Take(s, n) == SubSeq(s, 1, IF Len(s) < n THEN Len(s) ELSE n)

(* get_executed_ops_part with Included(index) as the left bound.           *)
get_executed_ops_part_included(self, cur) ==
    LET keys == SortedKeys(DOMAIN self.sorted_ops)
        none == [part |-> <<>>, cursor |-> Finished]
    IN IF cur.tag = "Finished" THEN [part |-> <<>>, cursor |-> cur]
       ELSE IF cur.tag = "Ongoing" /\ cur.slot \notin DOMAIN self.sorted_ops THEN none
       ELSE LET from == IF cur.tag = "Started" THEN 1
                        ELSE CHOOSE i \in 1..Len(keys) : keys[i] = cur.slot
                rest == SubSeq(keys, from, Len(keys))
                taken == Take(rest, PartSize)
                part == [i \in 1..Len(taken) |-> <<taken[i], self.sorted_ops[taken[i]]>>]
            IN IF Len(taken) > 0
               THEN [part |-> part, cursor |-> Ongoing(taken[Len(taken)])]
               ELSE none

(* get_executed_ops_part: returns (ops_part, next cursor).                 *)
get_executed_ops_part(self, cur) ==
    LET keys == SortedKeys(DOMAIN self.sorted_ops)
        none == [part |-> <<>>, cursor |-> Finished]
    IN IF cur.tag = "Finished" THEN [part |-> <<>>, cursor |-> cur]
       ELSE IF cur.tag = "Ongoing" /\ cur.slot \notin DOMAIN self.sorted_ops THEN none
       ELSE LET from == IF cur.tag = "Started" THEN 1
                        ELSE 1 + (CHOOSE i \in 1..Len(keys) : keys[i] = cur.slot)
                rest == SubSeq(keys, from, Len(keys))
                taken == Take(rest, PartSize)
                part == [i \in 1..Len(taken) |-> <<taken[i], self.sorted_ops[taken[i]]>>]
            IN IF Len(taken) > 0
               THEN [part |-> part, cursor |-> Ongoing(taken[Len(taken)])]
               ELSE none

(* sorted_ops.extend(part): each pair is inserted, an existing key gets    *)
(* the new value.                                                          *)
RECURSIVE ExtendMap(_, _)
ExtendMap(m, part) ==
    IF part = <<>> THEN m
    ELSE LET e == Head(part)
             m1 == [k \in (DOMAIN m) \cup {e[1]} |-> IF k = e[1] THEN e[2] ELSE m[k]]
         IN ExtendMap(m1, Tail(part))

(* The ids of a chunk, in iteration order (flat_map over the pairs).       *)
PartIds(part) == UNION {part[i][2] : i \in 1..Len(part)}

(* set_executed_ops_part: returns the new instance and the next step.      *)
set_executed_ops_part(self, part) ==
    LET s1 == [self EXCEPT !.sorted_ops = ExtendMap(@, part)]
        s2 == extend_and_compute_hash(s1, PartIds(part))
        keys == SortedKeys(DOMAIN s2.sorted_ops)
    IN [self |-> s2,
        cursor |-> IF Len(keys) > 0 THEN Ongoing(keys[Len(keys)]) ELSE Finished]

(***************************************************************************)
(* Inputs                                                                  *)
(***************************************************************************)
(* ExecutedOpsChanges: maps from some ids to their expiry slot.            *)
ChangeSets == UNION {[D -> Slots] : D \in SUBSET OperationIds}

(* A slot after every slot of the model.                                   *)
SlotsAndNext == Slots \cup {<<MaxPeriod + 1, 0>>}

Idle == [tag |-> "Idle"]

InitOps ==
    /\ eo = new
    /\ eo2 = new
    /\ phase = "build"
    /\ cursor = Idle
    /\ inflight = <<>>
    /\ chA = EmptyMap
    /\ chB = EmptyMap
    /\ curSlot = <<0, 0>>
    /\ InitPeerVars

(* A call of apply_changes on the instance.                                *)
ApplyChanges ==
    /\ phase = "build"
    /\ \E changes \in ChangeSets, slot \in Slots :
          eo' = apply_changes(eo, changes, slot)
    /\ UNCHANGED <<eo2, phase, cursor, inflight, chA, chB, curSlot>>
    /\ UNCHANGED peerVars

(* A call of prune on the instance.                                        *)
Prune ==
    /\ phase = "build"
    /\ \E slot \in SlotsAndNext : eo' = prune(eo, slot)
    /\ UNCHANGED <<eo2, phase, cursor, inflight, chA, chB, curSlot>>
    /\ UNCHANGED peerVars

NextOps == ApplyChanges \/ Prune

SpecOps == InitOps /\ [][NextOps]_vars

(***************************************************************************)
(* test_executed_ops_xor_computing, for any change sets                    *)
(***************************************************************************)
(* The two change sets give an id they share the same expiry slot, and the *)
(* current slot is not above any expiry.                                   *)
InitXor ==
    /\ eo = new
    /\ eo2 = new
    /\ phase = "xor_start"
    /\ cursor = Idle
    /\ inflight = <<>>
    /\ chA \in ChangeSets
    /\ chB \in ChangeSets
    /\ \A id \in (DOMAIN chA) \cap (DOMAIN chB) : chA[id] = chB[id]
    /\ curSlot \in Slots
    /\ \A id \in DOMAIN chA : SlotLeq(curSlot, chA[id])
    /\ \A id \in DOMAIN chB : SlotLeq(curSlot, chB[id])
    /\ InitPeerVars

(* change_c: the union of the two change sets.                             *)
change_c == [id \in (DOMAIN chA) \cup (DOMAIN chB) |->
               IF id \in DOMAIN chA THEN chA[id] ELSE chB[id]]

(* a.apply_changes(change_a, slot)                                         *)
XorApplyA ==
    /\ phase = "xor_start"
    /\ eo' = apply_changes(eo, chA, curSlot)
    /\ phase' = "xor_a"
    /\ UNCHANGED <<eo2, cursor, inflight, chA, chB, curSlot>>
    /\ UNCHANGED peerVars

(* a.apply_changes(change_b, slot)                                         *)
XorApplyB ==
    /\ phase = "xor_a"
    /\ eo' = apply_changes(eo, chB, curSlot)
    /\ phase' = "xor_b"
    /\ UNCHANGED <<eo2, cursor, inflight, chA, chB, curSlot>>
    /\ UNCHANGED peerVars

(* c.apply_changes(change_c, slot)                                         *)
XorApplyC ==
    /\ phase = "xor_b"
    /\ eo2' = apply_changes(eo2, change_c, curSlot)
    /\ phase' = "xor_c"
    /\ UNCHANGED <<eo, cursor, inflight, chA, chB, curSlot>>
    /\ UNCHANGED peerVars

(* a.apply_changes(empty, prune_slot); a.prune(prune_slot), with a         *)
(* prune_slot after every stored key.                                      *)
XorPruneAll ==
    /\ phase = "xor_c"
    /\ \E prune_slot \in SlotsAndNext :
          /\ \A k \in DOMAIN eo.sorted_ops : SlotLess(k, prune_slot)
          /\ eo' = prune(apply_changes(eo, EmptyMap, prune_slot), prune_slot)
    /\ phase' = "xor_pruned"
    /\ UNCHANGED <<eo2, cursor, inflight, chA, chB, curSlot>>
    /\ UNCHANGED peerVars

NextXor == XorApplyA \/ XorApplyB \/ XorApplyC \/ XorPruneAll

SpecXor == InitXor /\ [][NextXor]_vars

(***************************************************************************)
(* Bootstrap streaming of an instance built by apply_changes               *)
(***************************************************************************)
(* The bootstrap starts: the server's cursor is Started, the client is a   *)
(* fresh instance.                                                         *)
StreamStart ==
    /\ phase = "build"
    /\ phase' = "stream"
    /\ cursor' = Started
    /\ eo2' = new
    /\ UNCHANGED <<eo, inflight, chA, chB, curSlot>>
    /\ UNCHANGED peerVars

(* The server answers the cursor with get_executed_ops_part.               *)
GetPart ==
    /\ phase = "stream"
    /\ inflight = <<>>
    /\ LET r == get_executed_ops_part(eo, cursor)
       IN /\ inflight' = <<r.part>>
          /\ cursor' = r.cursor
    /\ UNCHANGED <<eo, eo2, phase, chA, chB, curSlot>>
    /\ UNCHANGED peerVars

(* The client stores the chunk with set_executed_ops_part; the loop ends   *)
(* once the server returned Finished.                                      *)
SetPart ==
    /\ phase = "stream"
    /\ inflight # <<>>
    /\ eo2' = set_executed_ops_part(eo2, inflight[1]).self
    /\ inflight' = <<>>
    /\ phase' = IF cursor = Finished THEN "stream_done" ELSE phase
    /\ UNCHANGED <<eo, cursor, chA, chB, curSlot>>
    /\ UNCHANGED peerVars

NextStream == ApplyChanges \/ StreamStart \/ GetPart \/ SetPart

SpecStream == InitOps /\ [][NextStream]_vars

(***************************************************************************)
(* An instance that receives apply_changes, prune and                      *)
(* set_executed_ops_part calls in any order                                *)
(***************************************************************************)
(* The chunks the chunk deserializer can return: up to MaxChunk pairs of a *)
(* slot and a set of ids, the set possibly empty.                          *)
Chunks == SeqsUpTo(Slots \X (SUBSET OperationIds), MaxChunk)

(* A call of set_executed_ops_part on the instance.                        *)
SetPartAny ==
    /\ phase = "build"
    /\ \E part \in Chunks : eo' = set_executed_ops_part(eo, part).self
    /\ UNCHANGED <<eo2, phase, cursor, inflight, chA, chB, curSlot>>
    /\ UNCHANGED peerVars

NextParts == ApplyChanges \/ Prune \/ SetPartAny

SpecParts == InitOps /\ [][NextParts]_vars

(***************************************************************************)
(* ExecutedOpsDeserializer: the bootstrap client decodes a chunk and       *)
(* stores it                                                               *)
(***************************************************************************)
(* The id bytes that follow an inner length prefix k.                      *)
WireIds(k) == [i \in 1..k |-> ((i - 1) % MaxId) + 1]

(* An encoded slot entry: period, thread byte, inner length prefix, ids.   *)
WireEntries ==
    {[period |-> 0, thread |-> t, inner |-> k, ids |-> WireIds(k)] :
        t \in 0..ThreadCount, k \in 0..(max_operations_per_block + 1)}

(* An encoded chunk: the outer length prefix and the entries that follow   *)
(* it, which may be fewer or more than the prefix announces.               *)
WireChunks ==
    {[outer |-> n, entries |-> es] :
        n \in 0..(max_executed_ops_length + 1),
        es \in SeqsUpTo(WireEntries, max_executed_ops_length + 1)}

(* ops_length_deserializer with no upper bound.                            *)
ops_length_deserializer_unbounded(value) == TRUE
(* U64VarIntDeserializer::new(Included(u64::MIN),                          *)
(*                            Included(max_executed_ops_length))           *)
ops_length_deserializer(value) == value <= max_executed_ops_length

(* U64VarIntDeserializer::new(Included(u64::MIN),                          *)
(*                            Included(max_operations_per_block))          *)
slot_ops_length_deserializer(value) == value <= max_operations_per_block

(* SlotDeserializer::new(.., (Included(0), Excluded(thread_count)))        *)
slot_deserializer(period, thread) == thread < ThreadCount

(* The ids of an entry collected into a set.                               *)
Collect(ids) == {ids[i] : i \in 1..Len(ids)}

(* deserialize: length_count of (slot, length_count of operation ids);     *)
(* the first failing parser fails the whole input.                         *)
deserialize(buffer) ==
    LET failure == [ok |-> FALSE, value |-> <<>>]
        n == buffer.outer
        entry_ok(e) == /\ slot_deserializer(e.period, e.thread)
                       /\ slot_ops_length_deserializer(e.inner)
                       /\ Len(e.ids) >= e.inner
    IN IF ~ops_length_deserializer(n) THEN failure
       ELSE IF Len(buffer.entries) < n THEN failure
       ELSE IF \E i \in 1..n : ~entry_ok(buffer.entries[i]) THEN failure
       ELSE [ok |-> TRUE,
             value |-> [i \in 1..n |->
                          <<<<buffer.entries[i].period, buffer.entries[i].thread>>,
                            Collect(SubSeq(buffer.entries[i].ids, 1,
                                           buffer.entries[i].inner))>>]]

InitDeser ==
    /\ eo = new
    /\ eo2 = new
    /\ phase = "wire"
    /\ cursor = Idle
    /\ inflight \in {<<b>> : b \in WireChunks}
    /\ chA = EmptyMap
    /\ chB = EmptyMap
    /\ curSlot = <<0, 0>>
    /\ InitPeerVars

(* The client decodes the bytes received; a decoded chunk is stored with   *)
(* set_executed_ops_part.                                                  *)
ClientReceive ==
    /\ phase = "wire"
    /\ LET r == deserialize(inflight[1])
       IN IF r.ok
          THEN /\ eo2' = set_executed_ops_part(eo2, r.value).self
               /\ phase' = "deser_ok"
          ELSE /\ phase' = "deser_error"
               /\ UNCHANGED eo2
    /\ UNCHANGED <<eo, cursor, inflight, chA, chB, curSlot>>
    /\ UNCHANGED peerVars

NextDeser == ClientReceive

SpecDeser == InitDeser /\ [][NextDeser]_vars

(***************************************************************************)
(* MassaHandshake::perform_handshake, one thread per connection.  The      *)
(* other end of every connection is a party holding only the Outsider key: *)
(* it sends any frame it can build from its own key and from what the      *)
(* nodes have put on the wire.                                             *)
(***************************************************************************)
(* The call returns result to the transport layer; its locals are dropped. *)
Returned(s, result) ==
    [hs EXCEPT ![s] = [IdleSession EXCEPT !.pc = "returned", !.ret = result,
                                          !.owner = hs[s].owner,
                                          !.has_peer = hs[s].has_peer,
                                          !.peer_id = hs[s].peer_id,
                                          !.res = hs[s].res]]

(* The transport layer starts the call on node n, one thread per           *)
(* connection, threads being numbered in the order they start: the first   *)
(* frame (own id, version, tag 0, own announcement) is sent; a failed send *)
(* returns the error.                                                      *)
HsStart(s, n) ==
    /\ hs[s].pc = "idle"
    /\ \A t \in Sessions : t < s => hs[t].pc # "idle"
    /\ \E send_ok \in BOOLEAN :
          LET started == [IdleSession EXCEPT !.owner = n, !.pc = "recv_first"]
          IN hs' = IF send_ok
                   THEN [hs EXCEPT ![s] = started]
                   ELSE [hs EXCEPT ![s] = [started EXCEPT !.pc = "returned", !.ret = "err"]]
    /\ UNCHANGED <<peer_db, nonces, sigs, cmd_chan, msg_chan, tester_chan, reactor, sent>>
    /\ UNCHANGED wire
    /\ UNCHANGED opsVars

(* messages_handler.handle(id, bytes, peer_id): the message goes to the    *)
(* reactor's inbound channel.                                              *)
Handle(n, peer, body) ==
    [msg_chan EXCEPT ![n] = Append(@, [peer_id |-> peer, body |-> body])]

(* The first frame is received and the remote PeerId parsed (a failed      *)
(* receive, a frame shorter than 32 bytes or an unparsable PeerId return   *)
(* the error); an existing record of the remote is marked InHandshake;     *)
(* then version, tag byte and what follows it are read.  Tag 0: the        *)
(* announcement is checked, NewPeerConnected is handed to the messages     *)
(* handler, the random challenge is drawn and sent.  Tag 1: the            *)
(* piggybacked message is dispatched.  Every `?` and `return Err` of the   *)
(* block leaves the call.                                                  *)
HsRecvFirst(s) ==
    LET n == hs[s].owner IN
    /\ hs[s].pc = "recv_first"
    /\ \/ /\ hs' = Returned(s, "err")
          /\ UNCHANGED <<peer_db, nonces, msg_chan>>
       \/ \E f \in FirstFrames :
            LET peer == f.peer_id
                parsed == [hs EXCEPT ![s].has_peer = TRUE, ![s].peer_id = peer]
                failed == [parsed EXCEPT ![s].pc = "returned", ![s].ret = "err"]
            IN
            /\ peer_db' = [peer_db EXCEPT ![n] = SetState(@, peer, InHandshake)]
            /\ \/ /\ \/ f.version # "ok"
                     \/ f.tag = "none"
                     \/ f.tag = "0" /\ ~f.ann.ok
                     \/ f.tag = "0" /\ f.ann.ok /\ ~verify_announcement(peer, f.ann)
                     \/ f.tag = "1" /\ ~f.piggy_ok
                  /\ hs' = failed
                  /\ UNCHANGED <<nonces, msg_chan>>
               \/ /\ f.version = "ok" /\ f.tag = "0" /\ f.ann.ok
                  /\ verify_announcement(peer, f.ann)
                  /\ \/ /\ ~reactor[n].running
                        /\ hs' = failed
                        /\ UNCHANGED <<nonces, msg_chan>>
                     \/ /\ reactor[n].running
                        /\ Len(msg_chan[n]) < MaxChan
                        /\ nonces < MaxNonce
                        /\ msg_chan' = Handle(n, peer,
                              [id |-> 7, form |-> "ok",
                               entries |-> <<<<peer, f.ann.listeners>>>>])
                        /\ nonces' = nonces + 1
                        /\ \E send_ok \in BOOLEAN :
                              hs' = IF send_ok
                                    THEN [parsed EXCEPT ![s].pc = "recv_random",
                                                        ![s].ann = f.ann,
                                                        ![s].self_random = nonces + 1]
                                    ELSE failed
               \/ /\ f.version = "ok" /\ f.tag = "1" /\ f.piggy_ok
                  /\ \/ /\ ~reactor[n].running
                        /\ hs' = failed
                        /\ UNCHANGED msg_chan
                     \/ /\ reactor[n].running
                        /\ Len(msg_chan[n]) < MaxChan
                        /\ msg_chan' = Handle(n, peer, f.body)
                        /\ hs' = [parsed EXCEPT ![s].pc = "update_db", ![s].res = "ok_none"]
                  /\ UNCHANGED nonces
               \/ /\ f.version = "ok" /\ f.tag = "2"
                  /\ hs' = [parsed EXCEPT ![s].pc = "update_db", ![s].res = "err"]
                  /\ UNCHANGED <<nonces, msg_chan>>
    /\ UNCHANGED <<sigs, cmd_chan, tester_chan, reactor, sent>>
    /\ UNCHANGED wire
    /\ UNCHANGED opsVars

(* The random bytes a party can send: its own (0) or any the nodes drew.   *)
KnownRandoms == 0..nonces

(* The remote's random bytes are received, their hash is signed with the   *)
(* own key and the signature sent.                                         *)
HsRecvRandom(s) ==
    /\ hs[s].pc = "recv_random"
    /\ \/ /\ hs' = Returned(s, "err")
          /\ UNCHANGED sigs
       \/ \E r \in KnownRandoms, send_ok \in BOOLEAN :
            LET self_signature == sign(hs[s].owner, compute_from(r))
            IN IF send_ok
               THEN /\ hs' = [hs EXCEPT ![s].pc = "recv_signature", ![s].other_random = r,
                                        ![s].sent_signature = TRUE]
                    /\ sigs' = sigs \cup {self_signature}
               ELSE /\ hs' = Returned(s, "err")
                    /\ UNCHANGED sigs
    /\ UNCHANGED <<peer_db, nonces, cmd_chan, msg_chan, tester_chan, reactor, sent>>
    /\ UNCHANGED wire
    /\ UNCHANGED opsVars

(* The signatures a party without the nodes' keys can send: its own over   *)
(* any random bytes it knows, and the ones the nodes have sent.            *)
KnownSignatures == sigs \cup {sign(Outsider, compute_from(r)) : r \in KnownRandoms}

(* The call goes on whatever signature was received.                       *)
check_their_signature_skipped(peer_id, self_random_hash, other_signature) == TRUE
(* check their signature:                                                  *)
(* peer_id.verify_signature(&self_random_hash, &other_signature)?          *)
check_their_signature(peer_id, self_random_hash, other_signature) ==
    verify_signature(peer_id, self_random_hash, other_signature)

(* The remote's signature is received and checked against the hash of the  *)
(* own random bytes.                                                       *)
HsRecvSignature(s) ==
    /\ hs[s].pc = "recv_signature"
    /\ \/ hs' = Returned(s, "err")
       \/ \E other_signature \in KnownSignatures :
            LET self_random_hash == compute_from(hs[s].self_random)
            IN IF check_their_signature(hs[s].peer_id, self_random_hash, other_signature)
               THEN hs' = [hs EXCEPT ![s].pc = "update_db", ![s].res = "ok_some",
                                     ![s].other_signature = other_signature]
               ELSE hs' = Returned(s, "err")
    /\ UNCHANGED <<peer_db, nonces, sigs, cmd_chan, msg_chan, tester_chan, reactor, sent>>
    /\ UNCHANGED wire
    /\ UNCHANGED opsVars

(* The peer DB update on Ok((peer_id, Some(announcement))).                *)
StoreAnnouncement(db, peer, ann) ==
    LET index == IF ann.listeners # {}
                 THEN {e \in db.index_by_newest : e[2] # peer} \cup {<<ann.timestamp, peer>>}
                 ELSE db.index_by_newest
        info == [last_announce |-> ann, state |-> Trusted]
    IN [peers |-> [p \in (DOMAIN db.peers) \cup {peer} |->
                      IF p = peer THEN info ELSE db.peers[p]],
        index_by_newest |-> index]

(* The write-lock section after the block, on the three shapes of res.     *)
HsUpdateDb(s) ==
    LET n == hs[s].owner
        peer == hs[s].peer_id
    IN
    /\ hs[s].pc = "update_db"
    /\ \/ /\ hs[s].res = "ok_some"
          /\ peer_db' = [peer_db EXCEPT ![n] = StoreAnnouncement(@, peer, hs[s].ann)]
          /\ hs' = [hs EXCEPT ![s].pc = "send_peers"]
       \/ /\ hs[s].res = "ok_none"
          /\ peer_db' = [peer_db EXCEPT ![n] = SetState(@, peer, HandshakeFailed)]
          /\ hs' = Returned(s, "err")
       \/ /\ hs[s].res = "err"
          /\ peer_db' = [peer_db EXCEPT ![n] = SetState(@, peer, HandshakeFailed)]
          /\ hs' = [hs EXCEPT ![s].pc = "send_peers"]
    /\ UNCHANGED <<nonces, sigs, cmd_chan, msg_chan, tester_chan, reactor, sent>>
    /\ UNCHANGED wire
    /\ UNCHANGED opsVars

(* The closing ListPeers frame is sent and res returned.                   *)
HsSendPeers(s) ==
    /\ hs[s].pc = "send_peers"
    /\ \E send_ok \in BOOLEAN :
          hs' = IF ~send_ok THEN Returned(s, "err")
                ELSE IF hs[s].res = "ok_some"
                THEN [hs EXCEPT ![s].pc = "returned", ![s].ret = "ok",
                                ![s].sent_peers = TRUE]
                ELSE [Returned(s, "err") EXCEPT ![s].sent_peers = TRUE]
    /\ UNCHANGED <<peer_db, nonces, sigs, cmd_chan, msg_chan, tester_chan, reactor, sent>>
    /\ UNCHANGED wire
    /\ UNCHANGED opsVars

(* The handshake threads of the given nodes.                               *)
Handshake(nodes) ==
    \E s \in Sessions :
        \/ \E n \in nodes : HsStart(s, n)
        \/ HsRecvFirst(s)
        \/ HsRecvRandom(s)
        \/ HsRecvSignature(s)
        \/ HsUpdateDb(s)
        \/ HsSendPeers(s)

(***************************************************************************)
(* perform_handshake on the two ends of one buffered connection: thread 1  *)
(* on n1 and thread 2 on n2, each end receiving what the other has sent.   *)
(***************************************************************************)
HonestSessions == {1, 2}
Owner(s) == IF s = 1 THEN "n1" ELSE "n2"
Other(s) == 3 - s

(* endpoint.send that loses the bytes.                                     *)
SendTo_lost(w, s, item) == w
(* endpoint.send(&bytes): the bytes are buffered for the other end.        *)
SendTo(w, s, item) == [w EXCEPT ![Other(s)] = Append(@, item)]

(* endpoint.receive() has taken the first buffered item.                   *)
Received(w, s) == [w EXCEPT ![s] = Tail(@)]

(* The first frame is sent: own id, version, tag 0, own announcement.      *)
HonestStart(s) ==
    /\ s \in HonestSessions
    /\ hs[s].pc = "idle"
    /\ \E t \in Timestamps :
          LET listeners_announcement == Announcement(Owner(s), OwnListeners, t)
              bytes == Frame(Owner(s), "ok", "0", listeners_announcement, FALSE, NoBody)
          IN wire' = SendTo(wire, s, [kind |-> "first", frame |-> bytes])
    /\ hs' = [hs EXCEPT ![s] = [IdleSession EXCEPT !.owner = Owner(s), !.pc = "recv_first"]]
    /\ UNCHANGED <<peer_db, nonces, sigs, cmd_chan, msg_chan, tester_chan, reactor, sent>>
    /\ UNCHANGED opsVars

(* The first frame is received: an existing record of the remote is marked *)
(* InHandshake, version, tag and announcement are checked,                 *)
(* NewPeerConnected is handed to the messages handler, the random          *)
(* challenge is drawn and sent.                                            *)
HonestRecvFirst(s) ==
    LET n == hs[s].owner IN
    /\ hs[s].pc = "recv_first"
    /\ wire[s] # <<>>
    /\ Head(wire[s]).kind = "first"
    /\ LET f == Head(wire[s]).frame
           peer == f.peer_id
           parsed == [hs EXCEPT ![s].has_peer = TRUE, ![s].peer_id = peer]
           accepted == /\ f.version = "ok"
                       /\ f.tag = "0"
                       /\ f.ann.ok
                       /\ verify_announcement(peer, f.ann)
                       /\ reactor[n].running
       IN /\ peer_db' = [peer_db EXCEPT ![n] = SetState(@, peer, InHandshake)]
          /\ IF accepted
             THEN /\ Len(msg_chan[n]) < MaxChan
                  /\ nonces < MaxNonce
                  /\ msg_chan' = Handle(n, peer,
                        [id |-> 7, form |-> "ok",
                         entries |-> <<<<peer, f.ann.listeners>>>>])
                  /\ nonces' = nonces + 1
                  /\ hs' = [parsed EXCEPT ![s].pc = "recv_random",
                                          ![s].ann = f.ann,
                                          ![s].self_random = nonces + 1]
                  /\ wire' = SendTo(Received(wire, s), s,
                                    [kind |-> "random", bytes |-> nonces + 1])
             ELSE /\ hs' = [parsed EXCEPT ![s].pc = "returned", ![s].ret = "err"]
                  /\ wire' = Received(wire, s)
                  /\ UNCHANGED <<nonces, msg_chan>>
    /\ UNCHANGED <<sigs, cmd_chan, tester_chan, reactor, sent>>
    /\ UNCHANGED opsVars

(* The other end's random bytes are received, their hash is signed with    *)
(* the own key and the signature sent.                                     *)
HonestRecvRandom(s) ==
    /\ hs[s].pc = "recv_random"
    /\ wire[s] # <<>>
    /\ IF Head(wire[s]).kind = "random"
       THEN LET other_random_bytes == Head(wire[s]).bytes
                self_signature == sign(hs[s].owner, compute_from(other_random_bytes))
            IN /\ hs' = [hs EXCEPT ![s].pc = "recv_signature",
                                   ![s].other_random = other_random_bytes,
                                   ![s].sent_signature = TRUE]
               /\ sigs' = sigs \cup {self_signature}
               /\ wire' = SendTo(Received(wire, s), s,
                                 [kind |-> "signature", signature |-> self_signature])
       ELSE /\ hs' = Returned(s, "err")
            /\ wire' = Received(wire, s)
            /\ UNCHANGED sigs
    /\ UNCHANGED <<peer_db, nonces, cmd_chan, msg_chan, tester_chan, reactor, sent>>
    /\ UNCHANGED opsVars

(* The other end's signature is received and checked against the hash of   *)
(* the own random bytes.                                                   *)
HonestRecvSignature(s) ==
    /\ hs[s].pc = "recv_signature"
    /\ wire[s] # <<>>
    /\ LET got == Head(wire[s])
           self_random_hash == compute_from(hs[s].self_random)
       IN IF got.kind = "signature"
             /\ check_their_signature(hs[s].peer_id, self_random_hash, got.signature)
          THEN hs' = [hs EXCEPT ![s].pc = "update_db", ![s].res = "ok_some",
                                ![s].other_signature = got.signature]
          ELSE hs' = Returned(s, "err")
    /\ wire' = Received(wire, s)
    /\ UNCHANGED <<peer_db, nonces, sigs, cmd_chan, msg_chan, tester_chan, reactor, sent>>
    /\ UNCHANGED opsVars

(* The closing ListPeers frame is sent and res returned.                   *)
HonestSendPeers(s) ==
    /\ s \in HonestSessions
    /\ hs[s].pc = "send_peers"
    /\ wire' = SendTo(wire, s,
                      [kind |-> "peers",
                       peers |-> get_rand_peers_to_send(peer_db[hs[s].owner])])
    /\ hs' = IF hs[s].res = "ok_some"
             THEN [hs EXCEPT ![s].pc = "returned", ![s].ret = "ok",
                             ![s].sent_peers = TRUE]
             ELSE [Returned(s, "err") EXCEPT ![s].sent_peers = TRUE]
    /\ UNCHANGED <<peer_db, nonces, sigs, cmd_chan, msg_chan, tester_chan, reactor, sent>>
    /\ UNCHANGED opsVars

(***************************************************************************)
(* fallback_function: the connection that cannot be accepted               *)
(***************************************************************************)
(* The orders in which a Vec can list the given peers.                     *)
RECURSIVE Orderings(_)
Orderings(S) ==
    IF S = {} THEN {<<>>}
    ELSE UNION {{<<x>> \o q : q \in Orderings(S \ {x})} : x \in S}

(* db.read().get_rand_peers_to_send(100) as the (PeerId, listeners) list   *)
(* that ListPeers carries.                                                 *)
FallbackEntries(db) ==
    {[i \in 1..Len(q) |-> <<q[i], db.peers[q[i]].last_announce.listeners>>] :
        q \in Orderings(get_rand_peers_to_send(db))}

(* The frame with tag byte 0 in place of 1.                                *)
FallbackFrame_tag0(n, entries) ==
    Frame(n, "ok", "0", BadAnnouncement, TRUE,
          [id |-> 6, form |-> "ok", entries |-> entries])
(* buf: own PeerId, version, push(1), serialize_id and serialize of        *)
(* ListPeers(peers_to_send).                                               *)
FallbackFrame(n, entries) ==
    Frame(n, "ok", "1", BadAnnouncement, TRUE,
          [id |-> 6, form |-> "ok", entries |-> entries])

(* endpoint.shutdown() as the other end sees it.                           *)
Shutdown == [kind |-> "shutdown"]

(* fallback_function: the endpoint is cloned (try_clone()? returns the     *)
(* error), the worker thread is spawned and Ok(()) returned.               *)
FallbackCall(s) ==
    /\ hs[s].pc = "idle"
    /\ \E clone_ok \in BOOLEAN :
          hs' = [hs EXCEPT ![s] =
                    [IdleSession EXCEPT !.owner = Owner(s),
                                        !.pc = IF clone_ok THEN "fallback_worker"
                                                           ELSE "returned",
                                        !.ret = IF clone_ok THEN "ok" ELSE "err"]]
    /\ UNCHANGED <<peer_db, nonces, sigs, cmd_chan, msg_chan, tester_chan, reactor, sent>>
    /\ UNCHANGED wire
    /\ UNCHANGED opsVars

(* The spawned closure: the peers to send are read, the frame is built and *)
(* sent, the endpoint is shut down; a serialize or send error is logged    *)
(* and returns from the closure.                                           *)
FallbackWorker(s) ==
    LET n == hs[s].owner IN
    /\ hs[s].pc = "fallback_worker"
    /\ \E peers_to_send \in FallbackEntries(peer_db[n]),
          outcome \in {"serialize_error", "send_error", "sent"} :
          /\ hs' = [hs EXCEPT ![s].pc = "fallback_done", ![s].res = outcome]
          /\ wire' = IF outcome = "sent"
                     THEN SendTo(SendTo(wire, s,
                                        [kind |-> "first",
                                         frame |-> FallbackFrame(n, peers_to_send)]),
                                 s, Shutdown)
                     ELSE wire
    /\ UNCHANGED <<peer_db, nonces, sigs, cmd_chan, msg_chan, tester_chan, reactor, sent>>
    /\ UNCHANGED opsVars

(***************************************************************************)
(* PeerManagementHandler: the reactor thread and what feeds it             *)
(***************************************************************************)
Commands ==
    {[kind |-> k, ids |-> ids] : k \in {"Ban", "Unban"}, ids \in (SUBSET PeerIds) \ {{}}}
    \cup {[kind |-> k, ids |-> {}] : k \in {"GetBootstrapPeers", "Stop"}}

(* The Ban and Unban commands on a single peer.                            *)
BanCommands ==
    {[kind |-> k, ids |-> {p}] : k \in {"Ban", "Unban"}, p \in PeerIds}

(* A channel as its receiver sees it: the queued items, then, once every   *)
(* sender is dropped, the disconnection (recv returns Err from then on).   *)
CmdDisconnected == [kind |-> "Disconnected", ids |-> {}]
MsgDisconnected ==
    [peer_id |-> Outsider, body |-> [id |-> 0, form |-> "disconnected", entries |-> <<>>]]

IsDisconnected(chan, mark) == chan # <<>> /\ chan[Len(chan)] = mark

(* A command out of cmds is sent on the command channel.                   *)
SendCmdOf(n, cmds) ==
    /\ sent < MaxSent
    /\ ~IsDisconnected(cmd_chan[n], CmdDisconnected)
    /\ Len(cmd_chan[n]) < MaxCmdChan
    /\ \E cmd \in cmds : cmd_chan' = [cmd_chan EXCEPT ![n] = Append(@, cmd)]
    /\ sent' = sent + 1
    /\ UNCHANGED <<peer_db, hs, nonces, sigs, msg_chan, tester_chan, reactor>>
    /\ UNCHANGED wire
    /\ UNCHANGED opsVars

SendCmd(n) == SendCmdOf(n, Commands)

SendBanCmd(n) == SendCmdOf(n, BanCommands)

(* A connected peer's message is put on the inbound-message channel.       *)
SendMsg(n) ==
    /\ sent < MaxSent
    /\ ~IsDisconnected(msg_chan[n], MsgDisconnected)
    /\ Len(msg_chan[n]) < MaxChan
    /\ \E peer \in PeerIds, body \in MessageBodies : msg_chan' = Handle(n, peer, body)
    /\ sent' = sent + 1
    /\ UNCHANGED <<peer_db, hs, nonces, sigs, cmd_chan, tester_chan, reactor>>
    /\ UNCHANGED wire
    /\ UNCHANGED opsVars

(* Every sender of the command channel is dropped.                         *)
DropCmdSenders(n) ==
    /\ ~IsDisconnected(cmd_chan[n], CmdDisconnected)
    /\ cmd_chan' = [cmd_chan EXCEPT ![n] = Append(@, CmdDisconnected)]
    /\ UNCHANGED <<peer_db, hs, nonces, sigs, msg_chan, tester_chan, reactor, sent>>
    /\ UNCHANGED wire
    /\ UNCHANGED opsVars

(* Every sender of the inbound-message channel is dropped.                 *)
DropMsgSenders(n) ==
    /\ ~IsDisconnected(msg_chan[n], MsgDisconnected)
    /\ msg_chan' = [msg_chan EXCEPT ![n] = Append(@, MsgDisconnected)]
    /\ UNCHANGED <<peer_db, hs, nonces, sigs, cmd_chan, tester_chan, reactor, sent>>
    /\ UNCHANGED wire
    /\ UNCHANGED opsVars

(* recv(ticker): ListPeers is sent to the connected peers unless there is  *)
(* no peer to send.                                                        *)
ReactorTick(n) ==
    /\ reactor[n].running
    /\ LET peers_to_send == get_rand_peers_to_send(peer_db[n])
       IN reactor' = [reactor EXCEPT ![n].log = IF peers_to_send = {}
                                               THEN "tick_empty" ELSE "tick_sent"]
    /\ UNCHANGED <<peer_db, hs, nonces, sigs, cmd_chan, msg_chan, tester_chan, sent>>
    /\ UNCHANGED wire
    /\ UNCHANGED opsVars

(* while let Ok(_msg) = test_receiver.try_recv() {} leaves the channel as  *)
(* it is.                                                                  *)
drain_skipped(chan) == chan
(* while let Ok(_msg) = test_receiver.try_recv() {}                        *)
drain(chan) == <<>>

(* for peer_id in peer_ids { peer_db.write().ban_peer(&peer_id) }          *)
RECURSIVE BanAll(_, _)
BanAll(db, ids) ==
    IF ids = {} THEN db
    ELSE LET id == CHOOSE i \in ids : TRUE
         IN BanAll(ban_peer(db, id), ids \ {id})

(* for peer_id in peer_ids { peer_db.write().unban_peer(&peer_id) }        *)
RECURSIVE UnbanAll(_, _, _)
UnbanAll(db, ids, state) ==
    IF ids = {} THEN db
    ELSE LET id == CHOOSE i \in ids : TRUE
         IN UnbanAll(unban_peer(db, id, state), ids \ {id}, state)

(* recv(receiver_cmd): Ban, Unban, GetBootstrapPeers, Stop, and Err on a   *)
(* disconnected channel, which is logged before the loop goes on.          *)
ReactorCmd(n) ==
    /\ reactor[n].running
    /\ cmd_chan[n] # <<>>
    /\ LET cmd == Head(cmd_chan[n]) IN
       \/ /\ cmd = CmdDisconnected
          /\ reactor' = [reactor EXCEPT ![n].log = "cmd_error"]
          /\ UNCHANGED <<cmd_chan, peer_db, tester_chan>>
       \/ /\ cmd # CmdDisconnected
          /\ cmd_chan' = [cmd_chan EXCEPT ![n] = Tail(@)]
          /\ \/ /\ cmd.kind = "Ban"
                /\ peer_db' = [peer_db EXCEPT ![n] = BanAll(@, cmd.ids)]
                /\ reactor' = [reactor EXCEPT ![n].log = "ban"]
                /\ UNCHANGED tester_chan
             \/ /\ cmd.kind = "Unban"
                /\ \E state \in {Trusted, HandshakeFailed} :
                      peer_db' = [peer_db EXCEPT ![n] = UnbanAll(@, cmd.ids, state)]
                /\ reactor' = [reactor EXCEPT ![n].log = "unban"]
                /\ UNCHANGED tester_chan
             \/ /\ cmd.kind = "GetBootstrapPeers"
                /\ reactor' = [reactor EXCEPT ![n].log = "bootstrap_peers"]
                /\ UNCHANGED <<peer_db, tester_chan>>
             \/ /\ cmd.kind = "Stop"
                /\ tester_chan' = [tester_chan EXCEPT ![n] = drain(@)]
                /\ reactor' = [reactor EXCEPT ![n] = [running |-> FALSE, log |-> "stop"]]
                /\ UNCHANGED peer_db
    /\ UNCHANGED <<hs, nonces, sigs, msg_chan, sent>>
    /\ UNCHANGED wire
    /\ UNCHANGED opsVars

(* The sender check that never finds a ban.                                *)
IsBanned_never(db, peer) == FALSE
(* peers.get(&peer_id) is Some(peer) with peer.state == Banned             *)
IsBanned(db, peer) == peer \in DOMAIN db.peers /\ db.peers[peer].state = Banned

(* try_send that queues the entry whatever the channel holds.              *)
RECURSIVE TrySendAll_unbounded(_, _)
TrySendAll_unbounded(chan, entries) ==
    IF entries = <<>> THEN chan
    ELSE TrySendAll_unbounded(Append(chan, Head(entries)), Tail(entries))

(* test_sender.try_send for each entry in order: an entry is dropped when  *)
(* the channel is full.                                                    *)
RECURSIVE TrySendAll(_, _)
TrySendAll(chan, entries) ==
    IF entries = <<>> THEN chan
    ELSE TrySendAll(IF Len(chan) < TesterCap THEN Append(chan, Head(entries)) ELSE chan,
                    Tail(entries))

(* recv(receiver_msg): an inbound (peer_id, message_id, bytes); Err on a   *)
(* disconnected channel returns from the loop.                             *)
ReactorMsg(n) ==
    /\ reactor[n].running
    /\ msg_chan[n] # <<>>
    /\ LET msg == Head(msg_chan[n]) IN
       IF msg = MsgDisconnected
       THEN /\ reactor' = [reactor EXCEPT ![n] = [running |-> FALSE, log |-> "msg_closed"]]
            /\ UNCHANGED <<msg_chan, tester_chan>>
       ELSE
       /\ msg_chan' = [msg_chan EXCEPT ![n] = Tail(@)]
       /\ IF IsBanned(peer_db[n], msg.peer_id)
          THEN /\ reactor' = [reactor EXCEPT ![n].log = "banned_sender"]
               /\ UNCHANGED tester_chan
          ELSE IF msg.body.form = "bad"
          THEN /\ reactor' = [reactor EXCEPT ![n].log = "deserialize_error"]
               /\ UNCHANGED tester_chan
          ELSE IF msg.body.form = "trailing"
          THEN /\ reactor' = [reactor EXCEPT ![n].log = "not_fully_deserialized"]
               /\ UNCHANGED tester_chan
          ELSE LET forwarded == TrySendAll(tester_chan[n], msg.body.entries)
               IN /\ tester_chan' = [tester_chan EXCEPT ![n] = forwarded]
                  /\ reactor' = [reactor EXCEPT ![n].log =
                        IF Len(forwarded) = Len(tester_chan[n]) + Len(msg.body.entries)
                        THEN "received" ELSE "try_send_error"]
    /\ UNCHANGED <<peer_db, hs, nonces, sigs, cmd_chan, sent>>
    /\ UNCHANGED wire
    /\ UNCHANGED opsVars

(* A tester worker takes an entry from the tester channel.                 *)
TesterRecv(n) ==
    /\ tester_chan[n] # <<>>
    /\ tester_chan' = [tester_chan EXCEPT ![n] = Tail(@)]
    /\ UNCHANGED <<peer_db, hs, nonces, sigs, cmd_chan, msg_chan, reactor, sent>>
    /\ UNCHANGED wire
    /\ UNCHANGED opsVars

InitPeer ==
    /\ eo = new
    /\ eo2 = new
    /\ phase = "build"
    /\ cursor = Idle
    /\ inflight = <<>>
    /\ chA = EmptyMap
    /\ chB = EmptyMap
    /\ curSlot = <<0, 0>>
    /\ InitPeerVars

(* The node whose peer DB and reactor are followed.                        *)
Local == "n1"

(* Handshake threads of one node, with its reactor serving Ban and Unban   *)
(* commands.                                                               *)
NextHandshake ==
    \/ Handshake({Local})
    \/ ReactorCmd(Local)
    \/ SendBanCmd(Local)

SpecHandshake == InitPeer /\ [][NextHandshake]_vars

(* Handshake threads of all the nodes against the party at the other end   *)
(* of their connections.                                                   *)
NextReplay == Handshake(Nodes)

SpecReplay == InitPeer /\ [][NextReplay]_vars

(* What a node may hold about the other node before the handshake: no     *)
(* record, or a record, not Banned, from an earlier announcement.          *)
HonestDbs(other) ==
    {EmptyDb}
    \cup {SetState(StoreAnnouncement(EmptyDb, other,
                                      Announcement(other, OwnListeners, t)), other, st) :
            t \in Timestamps, st \in {Trusted, HandshakeFailed}}

InitHonest ==
    /\ eo = new
    /\ eo2 = new
    /\ phase = "build"
    /\ cursor = Idle
    /\ inflight = <<>>
    /\ chA = EmptyMap
    /\ chB = EmptyMap
    /\ curSlot = <<0, 0>>
    /\ peer_db \in [Nodes -> HonestDbs("n1") \cup HonestDbs("n2")]
    /\ \A s \in HonestSessions : peer_db[Owner(s)] \in HonestDbs(Owner(Other(s)))
    /\ hs = [s \in Sessions |-> IdleSession]
    /\ nonces = 0
    /\ sigs = {}
    /\ cmd_chan = [n \in Nodes |-> <<>>]
    /\ msg_chan = [n \in Nodes |-> <<>>]
    /\ tester_chan = [n \in Nodes |-> <<>>]
    /\ reactor = [n \in Nodes |-> [running |-> TRUE, log |-> "none"]]
    /\ sent = 0
    /\ wire = [s \in Sessions |-> <<>>]

(* The two ends of the connection, each a thread of its node.              *)
NextHonest ==
    \E s \in HonestSessions :
        \/ HonestStart(s)
        \/ HonestRecvFirst(s)
        \/ HonestRecvRandom(s)
        \/ HonestRecvSignature(s)
        \/ HsUpdateDb(s)
        \/ HonestSendPeers(s)

(* Each thread runs on until it blocks in a receive or returns.            *)
SpecHonest == InitHonest /\ [][NextHonest]_vars /\ WF_vars(NextHonest)

(* The peer DBs two handshakes can leave behind.                           *)
ValidAnnouncements(p) == {a \in KnownAnnouncements : verify_announcement(p, a)}

InitialDbs ==
    LET one == {StoreAnnouncement(EmptyDb, p, a) :
                  p \in PeerIds, a \in UNION {ValidAnnouncements(q) : q \in PeerIds}}
        valid == {db \in one : \A p \in DOMAIN db.peers :
                                   verify_announcement(p, db.peers[p].last_announce)}
    IN {EmptyDb} \cup valid

(* The reactor of one node with the commands and messages it is sent.      *)
InitReactor ==
    /\ eo = new
    /\ eo2 = new
    /\ phase = "build"
    /\ cursor = Idle
    /\ inflight = <<>>
    /\ chA = EmptyMap
    /\ chB = EmptyMap
    /\ curSlot = <<0, 0>>
    /\ peer_db \in [Nodes -> InitialDbs]
    /\ \A n \in Nodes \ {Local} : peer_db[n] = EmptyDb
    /\ hs = [s \in Sessions |-> IdleSession]
    /\ nonces = 0
    /\ sigs = {}
    /\ cmd_chan = [n \in Nodes |-> <<>>]
    /\ msg_chan = [n \in Nodes |-> <<>>]
    /\ tester_chan = [n \in Nodes |-> <<>>]
    /\ reactor = [n \in Nodes |-> [running |-> TRUE, log |-> "none"]]
    /\ sent = 0
    /\ wire = [s \in Sessions |-> <<>>]

(* The reactor while the owner of the handler keeps its senders.           *)
NextStop ==
    \/ ReactorTick(Local)
    \/ ReactorCmd(Local)
    \/ ReactorMsg(Local)
    \/ SendCmd(Local)
    \/ SendMsg(Local)
    \/ TesterRecv(Local)

(* select! picks among the ready arms at random: a command that waits in   *)
(* the channel is received.                                                *)
SpecStop == InitReactor /\ [][NextStop]_vars /\ WF_vars(ReactorCmd(Local))

NextReactor ==
    \/ NextStop
    \/ DropCmdSenders(Local)
    \/ DropMsgSenders(Local)

SpecReactor == InitReactor /\ [][NextReactor]_vars

(* A connection the local node declines: the remote end sends its first    *)
(* frame, the local node runs fallback_function, while the reactor serves  *)
(* Ban and Unban commands.                                                 *)
NextFallback ==
    \/ \E s \in HonestSessions : Owner(s) # Local /\ HonestStart(s)
    \/ \E s \in HonestSessions : Owner(s) = Local /\ FallbackCall(s)
    \/ \E s \in HonestSessions : Owner(s) = Local /\ FallbackWorker(s)
    \/ SendBanCmd(Local)
    \/ ReactorCmd(Local)

SpecFallback == InitReactor /\ [][NextFallback]_vars

(***************************************************************************)
(* Properties of ExecutedOps                                               *)
(***************************************************************************)
RECURSIVE XorOver(_)
XorOver(ids) ==
    IF ids = {} THEN EXECUTED_OPS_INITIAL_BYTES
    ELSE LET id == CHOOSE v \in ids : TRUE
         IN XorHash(get_hash(id), XorOver(ids \ {id}))

StoredIds(self) == UNION {self.sorted_ops[k] : k \in DOMAIN self.sorted_ops}

(* C1: after any sequence of apply_changes and prune calls, ops equals the *)
(* union of the id sets of sorted_ops and no id is stored under two slot   *)
(* keys.                                                                   *)
C1_OpsIsUnionOfSortedOps ==
    /\ eo.ops = StoredIds(eo)
    /\ \A k1, k2 \in DOMAIN eo.sorted_ops :
          k1 # k2 => eo.sorted_ops[k1] \cap eo.sorted_ops[k2] = {}

(* C2: after any sequence of apply_changes and prune calls, hash is the    *)
(* XOR of the hashes of exactly the ids in ops.                            *)
C2_HashIsXorOfOps == eo.hash = XorOver(eo.ops)

(* C3: applying A then B to one instance and A \cup B to another gives the *)
(* same hash, and pruning everything returns the first hash to all-zero.   *)
C3_XorCancellation ==
    /\ phase = "xor_c" => eo.hash = eo2.hash
    /\ phase = "xor_pruned" => eo.hash = EXECUTED_OPS_INITIAL_BYTES

C3_Witness ==
    /\ phase = "xor_pruned"
    /\ (DOMAIN chA) \cap (DOMAIN chB) # {}
    /\ (DOMAIN chA) \ (DOMAIN chB) # {}
    /\ eo2.hash # EXECUTED_OPS_INITIAL_BYTES
    /\ eo.hash = EXECUTED_OPS_INITIAL_BYTES

(* C4: streaming an instance from Started until Finished into a fresh      *)
(* instance gives an instance with the same hash and sorted_ops.           *)
C4_StreamRoundTrip ==
    phase = "stream_done" => (eo2.hash = eo.hash /\ eo2.sorted_ops = eo.sorted_ops)

(* C10: for thresholds t1 <= t2, prune(t1) then prune(t2) gives the same   *)
(* sorted_ops, ops and hash as prune(t2) alone.                            *)
C10_PruneMonotone ==
    \A t1, t2 \in SlotsAndNext :
        SlotLeq(t1, t2) => prune(prune(eo, t1), t2) = prune(eo, t2)

C10_Witness ==
    \E t1, t2 \in SlotsAndNext :
        /\ SlotLess(t1, t2)
        /\ prune(eo, t1) # eo
        /\ prune(prune(eo, t1), t2) # prune(eo, t1)
        /\ prune(eo, t2).sorted_ops # EmptyMap

(* id is stored in the entry of slot.                                      *)
StoredUnder(self, slot, id) ==
    slot \in DOMAIN self.sorted_ops /\ id \in self.sorted_ops[slot]

(* The ids a chunk gives for a slot.                                       *)
PartIdsOf(part, slot) ==
    UNION {part[i][2] : i \in {j \in 1..Len(part) : part[j][1] = slot}}

(* C11: when an id stored under slot s1 is supplied again under another    *)
(* slot s2, by apply_changes or by set_executed_ops_part, the hash is not  *)
(* XORed again for it, the id stays under s1 and is not added to the entry *)
(* of s2.                                                                  *)
C11_FirstSeenSlotWins ==
    \A id \in OperationIds, s1, s2 \in Slots :
        (s1 # s2 /\ StoredUnder(eo, s1, id) /\ ~StoredUnder(eo, s2, id) /\ id \in eo.ops) =>
            /\ \A changes \in ChangeSets, slot \in Slots :
                  (id \in DOMAIN changes /\ changes[id] = s2) =>
                      LET r == apply_changes(eo, changes, slot)
                          keeps == \A k \in (DOMAIN eo.sorted_ops)
                                             \cup {changes[i] : i \in DOMAIN changes} :
                                      SlotLeq(slot, k)
                      IN /\ ~StoredUnder(r, s2, id)
                         /\ SlotLeq(slot, s1) => StoredUnder(r, s1, id)
                         /\ keeps => r.hash = XorHash(eo.hash,
                                                      XorOver((DOMAIN changes) \ eo.ops))
            /\ \A part \in Chunks :
                  id \in PartIdsOf(part, s2) =>
                      LET r == set_executed_ops_part(eo, part).self
                      IN /\ ~StoredUnder(r, s2, id)
                         /\ StoredUnder(r, s1, id)
                         /\ r.hash = XorHash(eo.hash, XorOver(PartIds(part) \ eo.ops))

(* C12: set_executed_ops_part leaves, for every slot of the chunk that was *)
(* already a key, the union of the previous id set and the chunk's ids for *)
(* it, and updates ops and hash for exactly the ids that were not in ops.  *)
C12_SetPartMerges ==
    \A part \in Chunks :
        LET r == set_executed_ops_part(eo, part).self
        IN /\ \A i \in 1..Len(part) :
                 part[i][1] \in DOMAIN eo.sorted_ops =>
                     r.sorted_ops[part[i][1]] =
                         eo.sorted_ops[part[i][1]] \cup PartIdsOf(part, part[i][1])
           /\ r.ops = eo.ops \cup PartIds(part)
           /\ r.hash = XorHash(eo.hash, XorOver(PartIds(part) \ eo.ops))

(* The first entries, at most PartSize, whose key is greater than slot.    *)
EntriesAfter(self, slot) ==
    LET keys == SortedKeys({k \in DOMAIN self.sorted_ops : SlotLess(slot, k)})
        taken == Take(keys, PartSize)
    IN [i \in 1..Len(taken) |-> <<taken[i], self.sorted_ops[taken[i]]>>]

(* C13: get_executed_ops_part(Ongoing(slot)) returns, for every slot, the  *)
(* first entries (at most bootstrap_part_size, in slot order) whose key is *)
(* greater than slot, also when slot is not a key of sorted_ops.           *)
C13_ResumableCursor ==
    \A slot \in Slots :
        get_executed_ops_part(eo, Ongoing(slot)).part = EntriesAfter(eo, slot)

(* C17: after any sequence of apply_changes, prune and                     *)
(* set_executed_ops_part calls, every slot key of sorted_ops maps to a     *)
(* non-empty id set.                                                       *)
C17_NoEmptySlotEntries ==
    \A k \in DOMAIN eo.sorted_ops : eo.sorted_ops[k] # {}

(* The bootstrap server's cursor loop: n calls of get_executed_ops_part,   *)
(* each with the cursor the previous one returned.                         *)
RECURSIVE CursorLoop(_, _, _)
CursorLoop(self, cur, n) ==
    IF n = 0 THEN <<>>
    ELSE LET r == get_executed_ops_part(self, cur)
         IN <<r>> \o CursorLoop(self, r.cursor, n - 1)

(* C19: on an unchanged instance with n entries and part size p, the       *)
(* cursor loop from Started returns the entries in ascending slot order    *)
(* without gap or repetition in ceil(n/p) chunks of p entries (the last    *)
(* one possibly shorter), each with cursor Ongoing(last slot copied); the  *)
(* next call, and a call with Finished, return an empty chunk and          *)
(* Finished.                                                               *)
C19_StreamChunking ==
    LET keys == SortedKeys(DOMAIN eo.sorted_ops)
        n == Len(keys)
        p == PartSize
        chunks == (n + (p - 1)) \div p
        run == CursorLoop(eo, Started, chunks + 2)
        last(i) == IF i * p < n THEN i * p ELSE n
        done == [part |-> <<>>, cursor |-> Finished]
    IN /\ \A i \in 1..chunks :
             /\ Len(run[i].part) = last(i) - ((i - 1) * p)
             /\ \A j \in 1..Len(run[i].part) :
                   run[i].part[j] = <<keys[((i - 1) * p) + j],
                                      eo.sorted_ops[keys[((i - 1) * p) + j]]>>
             /\ run[i].cursor = Ongoing(keys[last(i)])
       /\ run[chunks + 1] = done
       /\ run[chunks + 2] = done

C19_Witness ==
    LET keys == SortedKeys(DOMAIN eo.sorted_ops)
        run == CursorLoop(eo, Started, 3)
    IN /\ Len(keys) > PartSize
       /\ Len(keys) < 2 * PartSize
       /\ Len(run[1].part) = PartSize
       /\ run[2].part # <<>>
       /\ run[2].cursor = Ongoing(keys[Len(keys)])
       /\ run[3].cursor = Finished

(* The entries of an encoded chunk that its outer length prefix covers.    *)
Covered(buffer) ==
    {buffer.entries[i] :
        i \in {j \in 1..Len(buffer.entries) : j <= buffer.outer}}

(* C20: the chunk deserializer fails for every input whose outer length    *)
(* prefix is above max_executed_ops_length, whose inner length prefix is   *)
(* above max_operations_per_block or whose slot thread is not below        *)
(* thread_count, and accepts lengths up to and equal to the maxima.        *)
C20_DeserializerBounds ==
    phase \in {"deser_ok", "deser_error"} =>
        LET buffer == inflight[1]
            out_of_bounds ==
                \/ buffer.outer > max_executed_ops_length
                \/ \E e \in Covered(buffer) :
                      e.inner > max_operations_per_block \/ e.thread >= ThreadCount
            complete == Len(buffer.entries) >= buffer.outer
        IN /\ out_of_bounds => (phase = "deser_error" /\ eo2 = new)
           /\ (~out_of_bounds /\ complete) =>
                 /\ phase = "deser_ok"
                 /\ DOMAIN eo2.sorted_ops =
                       {<<e.period, e.thread>> : e \in Covered(buffer)}

C20_Witness ==
    /\ phase = "deser_ok"
    /\ inflight[1].outer = max_executed_ops_length
    /\ \E e \in Covered(inflight[1]) :
          e.inner = max_operations_per_block /\ e.thread = ThreadCount - 1
    /\ eo2.ops # {}

(* C21: prune(threshold) removes exactly the entries whose key is below    *)
(* threshold and keeps the others as they are, the one keyed at threshold  *)
(* included; with threshold at or below the minimum key, sorted_ops, ops   *)
(* and hash are unchanged.                                                 *)
C21_PruneExact ==
    \A threshold \in SlotsAndNext :
        LET r == prune(eo, threshold)
        IN /\ DOMAIN r.sorted_ops =
                 {k \in DOMAIN eo.sorted_ops : SlotLeq(threshold, k)}
           /\ \A k \in DOMAIN r.sorted_ops : r.sorted_ops[k] = eo.sorted_ops[k]
           /\ (\A k \in DOMAIN eo.sorted_ops : SlotLeq(threshold, k)) => r = eo

C21_Witness ==
    \E threshold \in Slots :
        /\ threshold \in DOMAIN eo.sorted_ops
        /\ \E k \in DOMAIN eo.sorted_ops : SlotLess(k, threshold)
        /\ threshold \in DOMAIN prune(eo, threshold).sorted_ops
        /\ prune(eo, threshold) # eo

(* The change sets that give every id an expiry it is already stored       *)
(* under or, for a new id, any expiry, none of them below slot.            *)
SameExpiry(self, changes, slot) ==
    \A id \in DOMAIN changes :
        /\ SlotLeq(slot, changes[id])
        /\ id \in self.ops => StoredUnder(self, changes[id], id)

(* C22: apply_changes with an id already in ops, under the expiry slot it  *)
(* is stored under and a current slot that prunes nothing, leaves hash,    *)
(* ops and sorted_ops unchanged; applying a change set twice gives the     *)
(* state that applying it once gives.                                      *)
C22_ReinsertionIdempotent ==
    \A changes \in ChangeSets, slot \in Slots :
        LET once == apply_changes(eo, changes, slot)
            prunes_nothing == \A k \in DOMAIN eo.sorted_ops : SlotLeq(slot, k)
        IN /\ (prunes_nothing /\ SameExpiry(eo, changes, slot)
                              /\ DOMAIN changes \subseteq eo.ops) => once = eo
           /\ apply_changes(once, changes, slot) = once

C22_Witness ==
    \E changes \in ChangeSets, slot \in Slots :
        /\ DOMAIN changes # {}
        /\ DOMAIN changes \subseteq eo.ops
        /\ SameExpiry(eo, changes, slot)
        /\ \A k \in DOMAIN eo.sorted_ops : SlotLeq(slot, k)
        /\ eo.hash # EXECUTED_OPS_INITIAL_BYTES
        /\ apply_changes(eo, changes, slot) = eo

(* changes without the ids whose expiry slot is below slot.                *)
WithoutExpired(changes, slot) ==
    [id \in {i \in DOMAIN changes : SlotLeq(slot, changes[i])} |-> changes[id]]

(* C23: apply_changes(changes, current_slot) gives the sorted_ops, ops and *)
(* hash that the same call gives with every id whose expiry is below       *)
(* current_slot left out of changes.                                       *)
C23_ExpiredLeaveNoTrace ==
    \A changes \in ChangeSets, slot \in Slots :
        apply_changes(eo, changes, slot)
            = apply_changes(eo, WithoutExpired(changes, slot), slot)

(* C28: after apply_changes(changes, s), contains(id) is true for every id *)
(* of changes whose expiry is not below s; an id that contains reports and *)
(* that is stored under an expiry e stays reported by every apply_changes  *)
(* whose current slot is not above e; contains(id) is true for every id    *)
(* stored in some sorted_ops entry.                                        *)
C28_ReplayWindow ==
    \A changes \in ChangeSets, slot \in Slots :
        LET r == apply_changes(eo, changes, slot)
        IN /\ \A id \in DOMAIN changes :
                 SlotLeq(slot, changes[id]) => contains(r, id)
           /\ \A id \in OperationIds, e \in Slots :
                 (contains(eo, id) /\ StoredUnder(eo, e, id) /\ SlotLeq(slot, e))
                     => contains(r, id)
           /\ \A id \in StoredIds(r) : contains(r, id)

(***************************************************************************)
(* Properties of the handshake and of the reactor                          *)
(***************************************************************************)
(* Thread s returns from perform_handshake in this step.                   *)
Returns(s) == hs[s].pc # "returned" /\ hs'[s].pc = "returned"

(* C5: when perform_handshake returns an error after the remote PeerId was *)
(* parsed, a remote that has a record in the peer DB has state             *)
(* HandshakeFailed (so no record is left InHandshake by a returned call).  *)
C5_FailureMarksPeer ==
    [][\A s \in Sessions :
          (/\ Returns(s)
           /\ hs'[s].ret = "err"
           /\ hs'[s].has_peer
           /\ hs'[s].peer_id \in DOMAIN peer_db'[hs'[s].owner].peers)
          => peer_db'[hs'[s].owner].peers[hs'[s].peer_id].state = HandshakeFailed]_vars

(* C6: perform_handshake returns Ok(remote) only after it drew random      *)
(* bytes of its own in this call, received a signature of the remote id    *)
(* over their hash, and sent its own signature over the hash of the random *)
(* bytes it received.                                                      *)
C6_MutualAuthentication ==
    \A s \in Sessions :
        hs[s].ret = "ok" =>
            /\ hs[s].has_peer
            /\ hs[s].self_random \in 1..nonces
            /\ \A t \in Sessions \ {s} : hs[t].self_random # hs[s].self_random
            /\ hs[s].other_signature.signer = hs[s].peer_id
            /\ hs[s].other_signature.hash = compute_from(hs[s].self_random)
            /\ hs[s].sent_signature
            /\ hs[s].other_random \in 0..nonces
            /\ sign(hs[s].owner, compute_from(hs[s].other_random)) \in sigs

C6_Witness ==
    \E s \in Sessions :
        /\ hs[s].ret = "ok"
        /\ hs[s].peer_id = Outsider
        /\ hs[s].other_signature = sign(Outsider, compute_from(hs[s].self_random))

(* C7: when a node's perform_handshake returns Ok(P) for the id P of       *)
(* another node, the party at the other end of the connection holds P's    *)
(* keypair; here the other end of every connection holds the Outsider key  *)
(* only, so no call returns Ok with the id of another node, whatever       *)
(* frames of P's other sessions the remote forwards.                       *)
C7_IdentityBinding ==
    \A s \in Sessions :
        hs[s].ret = "ok" => hs[s].peer_id \notin (Nodes \ {hs[s].owner})

HasState(db, p, state) == p \in DOMAIN db.peers /\ db.peers[p].state = state

(* Thread s runs, in this step, the write-lock section on                  *)
(* Ok((peer_id, Some(announcement))).                                      *)
SuccessUpdate(s) ==
    /\ hs[s].pc = "update_db"
    /\ hs[s].res = "ok_some"
    /\ hs'[s].pc = "send_peers"

(* The entries of index_by_newest for a peer.                              *)
IndexEntries(db, peer) == {e \in db.index_by_newest : e[2] = peer}

(* C14: the write-lock section of a successful tag-0 handshake leaves the  *)
(* remote's record Trusted with last_announce the received announcement,   *)
(* and exactly one index_by_newest entry for the peer, the one with the    *)
(* announcement's timestamp, whatever the announcement's listeners.        *)
C14_SuccessUpdatesDb ==
    [][\A s \in Sessions :
          SuccessUpdate(s) =>
              LET db == peer_db'[hs[s].owner]
                  peer == hs[s].peer_id
                  ann == hs[s].ann
              IN /\ HasState(db, peer, Trusted)
                 /\ db.peers[peer].last_announce = ann
                 /\ IndexEntries(db, peer) = {<<ann.timestamp, peer>>}]_vars

(* Both ends have returned Ok(the other node's id) and hold the other     *)
(* node Trusted and indexed.                                               *)
HonestDone ==
    \A s \in HonestSessions :
        /\ hs[s].pc = "returned"
        /\ hs[s].ret = "ok"
        /\ hs[s].peer_id = Owner(Other(s))
        /\ HasState(peer_db[Owner(s)], Owner(Other(s)), Trusted)
        /\ IndexEntries(peer_db[Owner(s)], Owner(Other(s))) # {}

(* C18: two nodes with distinct keys, compatible versions, neither banned, *)
(* one listener each, running perform_handshake on the two ends of one     *)
(* buffered connection: no call returns an error, both calls eventually    *)
(* return Ok(the other's id), and each peer DB then has the other node     *)
(* Trusted with an index_by_newest entry.                                  *)
C18_HonestHandshakeCompletes ==
    /\ [](\A s \in HonestSessions : hs[s].ret # "err")
    /\ <>[]HonestDone

C18_Witness ==
    /\ \A s \in HonestSessions :
          /\ hs[s].ret = "ok"
          /\ hs[s].other_signature =
                sign(Owner(Other(s)), compute_from(hs[s].self_random))
          /\ wire[s] # <<>>
          /\ Head(wire[s]).kind = "peers"
    /\ \A n \in Nodes : \E p \in Nodes \ {n} : HasState(peer_db[n], p, Trusted)
    /\ nonces = 2

(* The reactor of n processes, in this step, an Unban that names p.        *)
UnbanStep(n, p) ==
    /\ reactor[n].running
    /\ cmd_chan[n] # <<>>
    /\ cmd_chan'[n] = Tail(cmd_chan[n])
    /\ Head(cmd_chan[n]).kind = "Unban"
    /\ p \in Head(cmd_chan[n]).ids

(* The reactor of n processes, in this step, a Ban that names p.           *)
BanStep(n, p) ==
    /\ reactor[n].running
    /\ cmd_chan[n] # <<>>
    /\ cmd_chan'[n] = Tail(cmd_chan[n])
    /\ Head(cmd_chan[n]).kind = "Ban"
    /\ p \in Head(cmd_chan[n]).ids

(* C8: once the reactor has processed Ban for a peer with a record, the    *)
(* record is Banned and stays Banned (and in peers) until the reactor      *)
(* processes an Unban that names it, whatever the handshakes do.           *)
C8_BanPersists ==
    [][\A n \in Nodes, p \in PeerIds :
          /\ (BanStep(n, p) /\ p \in DOMAIN peer_db[n].peers)
                => HasState(peer_db'[n], p, Banned)
          /\ (HasState(peer_db[n], p, Banned) /\ ~UnbanStep(n, p))
                => HasState(peer_db'[n], p, Banned)]_vars

(* The reactor of n finds, in this step, one of its input channels         *)
(* disconnected.                                                           *)
ReadsDisconnection(n) ==
    /\ reactor[n].running
    /\ reactor'[n] # reactor[n]
    /\ \/ cmd_chan[n] # <<>> /\ Head(cmd_chan[n]) = CmdDisconnected
             /\ reactor'[n].log = "cmd_error"
       \/ msg_chan[n] # <<>> /\ Head(msg_chan[n]) = MsgDisconnected
             /\ reactor'[n].log = "msg_closed"

(* C15: when the reactor finds the inbound-message channel or the command  *)
(* channel disconnected, its loop terminates.                              *)
C15_ExitsOnClosedChannel ==
    [][\A n \in Nodes : ReadsDisconnection(n) => ~reactor'[n].running]_vars

(* A Stop command waits in the command channel of a running reactor.       *)
StopQueued(n) ==
    /\ reactor[n].running
    /\ \E i \in 1..Len(cmd_chan[n]) : cmd_chan[n][i].kind = "Stop"

(* C16: a Stop in the command channel is eventually received; the reactor  *)
(* then drains the tester channel and exits; it exits only on the Stop at  *)
(* the head of the channel, the commands sent before it having been        *)
(* received; after the exit it takes nothing from its channels and         *)
(* changes neither the peer DB nor its own state.                          *)
C16_StopTerminates ==
    /\ StopQueued(Local) ~> ~reactor[Local].running
    /\ [][(reactor[Local].running /\ ~reactor'[Local].running) =>
             /\ cmd_chan[Local] # <<>>
             /\ Head(cmd_chan[Local]).kind = "Stop"
             /\ cmd_chan'[Local] = Tail(cmd_chan[Local])
             /\ tester_chan'[Local] = <<>>]_vars
    /\ [][~reactor[Local].running =>
             /\ reactor'[Local] = reactor[Local]
             /\ peer_db' = peer_db
             /\ Len(cmd_chan'[Local]) >= Len(cmd_chan[Local])
             /\ Len(msg_chan'[Local]) >= Len(msg_chan[Local])]_vars

C16_Witness ==
    /\ reactor[Local] = [running |-> FALSE, log |-> "stop"]
    /\ \E p \in PeerIds : HasState(peer_db[Local], p, Banned)
    /\ tester_chan[Local] = <<>>
    /\ sent = MaxSent

(* C9: when the reactor processes an inbound message whose sender is       *)
(* Banned in the peer DB, nothing is sent to the tester channel and the    *)
(* peer DB is not changed, whatever the message.                           *)
C9_BannedSenderDropped ==
    [][\A n \in Nodes :
          (/\ reactor[n].running
           /\ msg_chan[n] # <<>>
           /\ msg_chan'[n] = Tail(msg_chan[n])
           /\ HasState(peer_db[n], Head(msg_chan[n]).peer_id, Banned))
          => (tester_chan' = tester_chan /\ peer_db' = peer_db)]_vars

C9_Witness ==
    /\ reactor[Local].log = "banned_sender"
    /\ \E p \in PeerIds : HasState(peer_db[Local], p, Banned)
    /\ Len(tester_chan[Local]) < TesterCap

(* C24: in every reachable peer DB, under any interleaving of handshakes,  *)
(* Ban and Unban, index_by_newest holds at most one entry per PeerId, and  *)
(* every PeerId in it has a record in peers whose last_announce has at     *)
(* least one listener.                                                     *)
C24_IndexInvariants ==
    \A n \in Nodes :
        LET db == peer_db[n]
        IN /\ \A p \in PeerIds : Cardinality(IndexEntries(db, p)) <= 1
           /\ \A e \in db.index_by_newest :
                 /\ e[2] \in DOMAIN db.peers
                 /\ db.peers[e[2]].last_announce.listeners # {}

(* C25: a returned perform_handshake has sent the closing ListPeers frame  *)
(* exactly when it returned Ok; on every failing outcome, the unknown tag  *)
(* and the tag-1 decline included, no ListPeers frame was sent before the  *)
(* error was returned.                                                     *)
C25_ListPeersOnlyOnSuccess ==
    \A s \in Sessions :
        hs[s].pc = "returned" => (hs[s].sent_peers <=> hs[s].ret = "ok")

(* C29: a step gives a peer a record in peers only when it is the          *)
(* write-lock section of a successful tag-0 handshake with that peer; and  *)
(* while every perform_handshake call made so far has returned an error,   *)
(* the peer DB, which had no record when the calls started, has none and   *)
(* index_by_newest is empty.                                               *)
C29_RecordOnlyOnSuccess ==
    /\ [][\A p \in PeerIds :
            (p \notin DOMAIN peer_db[Local].peers /\ p \in DOMAIN peer_db'[Local].peers)
                => \E s \in Sessions : SuccessUpdate(s) /\ hs[s].peer_id = p]_vars
    /\ []((\A s \in Sessions :
              \/ hs[s].pc = "idle"
              \/ hs[s].pc = "returned" /\ hs[s].ret = "err")
           => peer_db[Local] = EmptyDb)

====
